---- MODULE Spec2Model ----
(***************************************************************************)
(* Model of ConcurrentSource.read (airbyte_cdk/sources/concurrent_source/  *)
(* concurrent_source.py): one driver thread that consumes a shared FIFO    *)
(* queue, a thread pool of max_workers threads that executes partition     *)
(* generation tasks and partition reading tasks, and the per-run scheduling *)
(* state of the driver.                                                    *)
(***************************************************************************)
EXTENDS Integers, Sequences, FiniteSets, TLC

(* Bounds of the model. *)
NStreams == 3           \* streams in the catalog
MaxTotalParts == 2      \* partitions discovered in one run, all streams together
MaxTotalRecs == 2       \* records produced in one run, all partitions together
MaxWorkers == 2         \* largest max_workers a run is given
SerialTotalRecs == 3    \* records produced in one run of the error-free specifications

(* max_number_of_partition_generator_in_progress, concurrent_source.py:58 *)
max_number_of_partition_generator_in_progress == 1

Streams == 1..NStreams

VARIABLES
    kind,                           \* catalog entry s: "ok", "unavailable" or "missing"
    raise_exception_on_missing_stream,
    nparts,                         \* partitions the generator of stream s discovers
    nrecs,                          \* records each partition of stream s produces
    max_workers,
    should_log_slice_message,       \* the slice logger logs slices (a debug logger)
    pc,                             \* "start", "loop", "done" (read returned), "raised"
    exc,                            \* the exception read raised, "none" otherwise
    futures,                        \* every submitted task, in submission order
    queue,                          \* the shared queue
    partition_generators,           \* streams waiting to start discovery
    partition_generator_running,    \* streams in active discovery
    streams_in_progress,
    streams_to_partitions_to_done,
    record_counter,
    timer,                          \* MultiEventTimer: per stream "none", "started", "finished"
    reported,                       \* timer.report() was logged
    pool_shutdown,                  \* the thread pool was shut down
    message_repository,             \* messages emitted to the repository and not yet consumed
    trace                           \* what the driver yielded and the cursor calls it made

vars == <<kind, raise_exception_on_missing_stream, nparts, nrecs, max_workers, should_log_slice_message,
          pc, exc, futures, queue, partition_generators, partition_generator_running,
          streams_in_progress, streams_to_partitions_to_done, record_counter, timer, reported,
          pool_shutdown, message_repository, trace>>

inputs == <<kind, raise_exception_on_missing_stream, nparts, nrecs, max_workers, should_log_slice_message>>
driver == <<pc, exc, partition_generators, partition_generator_running, streams_in_progress,
            streams_to_partitions_to_done, record_counter, timer, reported, pool_shutdown,
            message_repository, trace>>

----
(* Helpers *)

Range(f) == {f[i] : i \in DOMAIN f}

(* A remove that leaves the list as it was *)
SeqRemoveNothing(seq, x) == seq

RECURSIVE SeqRemove(_, _)
(* list.remove(x): drops the first occurrence of x *)
SeqRemove(seq, x) ==
    IF seq = <<>> THEN <<>>
    ELSE IF Head(seq) = x THEN Tail(seq)
    ELSE <<Head(seq)>> \o SeqRemove(Tail(seq), x)

(* Every order in which a set can be iterated *)
Orders(S) == {f \in [1..Cardinality(S) -> S] : \A i, j \in DOMAIN f : f[i] = f[j] => i = j}

RECURSIVE SumTo(_, _)
SumTo(n, f) == IF n = 0 THEN 0 ELSE f[n] + SumTo(n - 1, f)

Item(type, s, p, i) == [type |-> type, stream |-> s, part |-> p, idx |-> i]
Task(k, s, p) == [kind |-> k, stream |-> s, part |-> p, st |-> "pending", pos |-> 0, failed |-> FALSE]

Status(s, status) == [ev |-> "status", stream |-> s, part |-> 0, idx |-> 0, status |-> status]
RecordMsg(s, p, i) == [ev |-> "record", stream |-> s, part |-> p, idx |-> i, status |-> ""]
Observe(s, p, i) == [ev |-> "observe", stream |-> s, part |-> p, idx |-> i, status |-> ""]
SliceLog(s, p) == [ev |-> "slice_log", stream |-> s, part |-> p, idx |-> 0, status |-> ""]
ClosePartition(s, p) == [ev |-> "close_partition", stream |-> s, part |-> p, idx |-> 0, status |-> ""]

----
(* The run's inputs and the state after construction. A stream that is not read
   discovers nothing; the model follows one run of read, from the call until
   read returns or raises. *)

InitWith(maxRecs) ==
    /\ kind \in [Streams -> {"ok", "unavailable", "missing"}]
    /\ raise_exception_on_missing_stream \in BOOLEAN
    /\ nparts \in [Streams -> 0..MaxTotalParts]
    /\ nrecs \in [Streams -> 0..maxRecs]
    /\ \A s \in Streams : (kind[s] # "ok" => nparts[s] = 0) /\ (nparts[s] = 0 => nrecs[s] = 0)
    /\ SumTo(NStreams, nparts) <= MaxTotalParts
    /\ SumTo(NStreams, [s \in Streams |-> nparts[s] * nrecs[s]]) <= maxRecs
    /\ max_workers \in 1..MaxWorkers
    /\ should_log_slice_message \in BOOLEAN
    /\ pc = "start"
    /\ exc = "none"
    /\ futures = <<>>
    /\ queue = <<>>
    /\ partition_generators = <<>>
    /\ partition_generator_running = <<>>
    /\ streams_in_progress = {}
    /\ streams_to_partitions_to_done = <<>>
    /\ record_counter = <<>>
    /\ timer = [s \in Streams |-> "none"]
    /\ reported = FALSE
    /\ pool_shutdown = FALSE
    /\ message_repository = <<>>
    /\ trace = <<>>

Init == InitWith(MaxTotalRecs)

----
(* The thread pool: ThreadPoolExecutor(max_workers) *)

Executing(futs) == {i \in DOMAIN futs : futs[i].st \in {"running", "returning"}}
Finished(f) == f.st \in {"done", "cancelled"}

(* _submit_task: futures.append(pool.submit(function, *args)) *)
SubmitTask(futs, task) == Append(futs, task)

(* shutdown(wait=False, cancel_futures=True): work not yet started is cancelled *)
Shutdown(futs) == [i \in DOMAIN futs |-> IF futs[i].st = "pending" THEN [futs[i] EXCEPT !.st = "cancelled"] ELSE futs[i]]

(* A pool that starts a thread per task, whatever max_workers is *)
PoolStartUnbounded(i) ==
    /\ pc = "loop"
    /\ futures[i].st = "pending"
    /\ \A j \in 1..(i - 1) : futures[j].st # "pending"
    /\ futures' = [futures EXCEPT ![i].st = "running"]
    /\ UNCHANGED <<inputs, driver, queue>>

(* A free worker thread takes the oldest pending task *)
PoolStart(i) ==
    /\ pc = "loop"
    /\ futures[i].st = "pending"
    /\ \A j \in 1..(i - 1) : futures[j].st # "pending"
    /\ Cardinality(Executing(futures)) < max_workers
    /\ futures' = [futures EXCEPT ![i].st = "running"]
    /\ UNCHANGED <<inputs, driver, queue>>

(* The task's function returned: its future is marked finished and the thread is free *)
TaskReturn(i) ==
    /\ pc = "loop"
    /\ futures[i].st = "returning"
    /\ futures' = [futures EXCEPT ![i].st = "done"]
    /\ UNCHANGED <<inputs, driver, queue>>

----
(* The tasks: PartitionEnqueuer.generate_partitions and PartitionReader.process_partition *)

GenPartition(i) ==
    /\ pc = "loop"
    /\ futures[i].kind = "gen" /\ futures[i].st = "running"
    /\ futures[i].pos < nparts[futures[i].stream]
    /\ queue' = Append(queue, Item("Partition", futures[i].stream, futures[i].pos + 1, 0))
    /\ futures' = [futures EXCEPT ![i].pos = @ + 1]
    /\ UNCHANGED <<inputs, driver>>

GenCompleted(i) ==
    /\ pc = "loop"
    /\ futures[i].kind = "gen" /\ futures[i].st = "running"
    /\ futures[i].pos = nparts[futures[i].stream]
    /\ queue' = Append(queue, Item("GenerationCompleted", futures[i].stream, 0, 0))
    /\ futures' = [futures EXCEPT ![i].st = "returning"]
    /\ UNCHANGED <<inputs, driver>>

ReadRecord(i) ==
    /\ pc = "loop"
    /\ futures[i].kind = "read" /\ futures[i].st = "running"
    /\ futures[i].pos < nrecs[futures[i].stream]
    /\ queue' = Append(queue, Item("Record", futures[i].stream, futures[i].part, futures[i].pos + 1))
    /\ futures' = [futures EXCEPT ![i].pos = @ + 1]
    /\ UNCHANGED <<inputs, driver>>

ReadCompleted(i) ==
    /\ pc = "loop"
    /\ futures[i].kind = "read" /\ futures[i].st = "running"
    /\ futures[i].pos = nrecs[futures[i].stream]
    /\ queue' = Append(queue, Item("PartitionCompleted", futures[i].stream, futures[i].part, 0))
    /\ futures' = [futures EXCEPT ![i].st = "returning"]
    /\ UNCHANGED <<inputs, driver>>

(* The task's logic fails: an Error item and no completion marker *)
TaskFail(i) ==
    /\ pc = "loop"
    /\ futures[i].st = "running"
    /\ queue' = Append(queue, Item("Error", futures[i].stream, futures[i].part, 0))
    /\ futures' = [futures EXCEPT ![i].st = "returning", ![i].failed = TRUE]
    /\ UNCHANGED <<inputs, driver>>

----
(* The driver: ConcurrentSource.read *)

(* lines 63-81: the catalog entries read before the loop ends or raises *)
FirstMissing == IF \E s \in Streams : kind[s] = "missing"
                THEN CHOOSE s \in Streams : kind[s] = "missing" /\ \A r \in 1..(s - 1) : kind[r] # "missing"
                ELSE 0
(* A catalog loop that skips a missing stream whatever the policy *)
MissingNeverRaises == FALSE

MissingRaises == raise_exception_on_missing_stream /\ FirstMissing # 0
stream_instances_to_read_from ==
    SelectSeq([s \in Streams |-> s],
              LAMBDA s : kind[s] = "ok" /\ (MissingRaises => s < FirstMissing))

(* The end-of-run test without its look at the partitions *)
AllProcessedIgnoringPartitions(running, pending, s2p, futs) ==
    /\ running = <<>>
    /\ pending = <<>>
    /\ \A i \in DOMAIN futs : Finished(futs[i])

(* lines 183-190: everything was generated and processed, and every future is done *)
AllProcessed(running, pending, s2p, futs) ==
    /\ running = <<>>
    /\ pending = <<>>
    /\ \A s \in DOMAIN s2p : \A p \in DOMAIN s2p[s] : s2p[s][p]
    /\ \A i \in DOMAIN futs : Finished(futs[i])

(* lines 183-194: the end of one iteration of the main loop, futs being the futures
   after the handler and brk telling that the handler's branch hit its own break *)
EndOfIteration(brk, futs) ==
    IF brk \/ AllProcessed(partition_generator_running', partition_generators',
                           streams_to_partitions_to_done', futs)
    THEN /\ pc' = "done"
         /\ futures' = Shutdown(futs)
         /\ pool_shutdown' = TRUE
         /\ reported' = TRUE
    ELSE /\ pc' = "loop"
         /\ futures' = futs
         /\ UNCHANGED <<pool_shutdown, reported>>

(* lines 50-105 *)
Start ==
    /\ pc = "start"
    /\ timer' = [s \in Streams |-> IF s \in Range(stream_instances_to_read_from) THEN "started" ELSE timer[s]]
    /\ UNCHANGED <<inputs, queue, reported, pool_shutdown, message_repository>>
    /\ IF MissingRaises
       THEN /\ pc' = "raised" /\ exc' = "KeyError"
            /\ UNCHANGED <<futures, partition_generators, partition_generator_running, streams_in_progress,
                           streams_to_partitions_to_done, record_counter, trace>>
       ELSE /\ streams_to_partitions_to_done' = [s \in Range(stream_instances_to_read_from) |-> <<>>]
            /\ record_counter' = [s \in Range(stream_instances_to_read_from) |-> 0]
            \* lines 93-105: one pop(0) for each generator allowed in progress; a pop(0)
            \* on the emptied list raises
            /\ LET n == IF Len(stream_instances_to_read_from) < max_number_of_partition_generator_in_progress
                        THEN Len(stream_instances_to_read_from)
                        ELSE max_number_of_partition_generator_in_progress
                   first == SubSeq(stream_instances_to_read_from, 1, n)
               IN IF pool_shutdown /\ n >= 1
                  THEN \* line 96: submit on a pool that was shut down raises
                       /\ partition_generators' = Tail(stream_instances_to_read_from)
                       /\ streams_in_progress' = {Head(stream_instances_to_read_from)}
                       /\ pc' = "raised" /\ exc' = "RuntimeError"
                       /\ UNCHANGED <<futures, partition_generator_running, trace>>
                  ELSE
                  /\ partition_generators' = SubSeq(stream_instances_to_read_from, n + 1,
                                                     Len(stream_instances_to_read_from))
                  /\ streams_in_progress' = Range(first)
                  /\ futures' = futures \o [k \in 1..n |-> Task("gen", first[k], 0)]
                  /\ partition_generator_running' = first
                  /\ trace' = trace \o [k \in 1..n |-> Status(first[k], "STARTED")]
                  /\ IF n < max_number_of_partition_generator_in_progress
                     THEN pc' = "raised" /\ exc' = "IndexError"
                     ELSE pc' = "loop" /\ exc' = "none"

(* An abort that marks every stream that is read, finished ones included *)
HandleErrorEveryStream ==
    /\ pc = "loop" /\ queue # <<>> /\ Head(queue).type = "Error"
    /\ queue' = Tail(queue)
    /\ futures' = Shutdown(futures)
    /\ pool_shutdown' = TRUE
    /\ \E order \in Orders(DOMAIN record_counter) :
          trace' = trace \o [k \in DOMAIN order |-> Status(order[k], "INCOMPLETE")]
    /\ timer' = [s \in Streams |-> IF s \in DOMAIN record_counter THEN "finished" ELSE timer[s]]
    /\ pc' = "raised" /\ exc' = "Error"
    /\ UNCHANGED <<inputs, partition_generators, partition_generator_running, streams_in_progress,
                   streams_to_partitions_to_done, record_counter, reported, message_repository>>

(* lines 114-119 and _stop_streams, lines 249-255 *)
HandleError ==
    /\ pc = "loop" /\ queue # <<>> /\ Head(queue).type = "Error"
    /\ queue' = Tail(queue)
    /\ futures' = Shutdown(futures)
    /\ pool_shutdown' = TRUE
    /\ \E order \in Orders(streams_in_progress) :
          trace' = trace \o [k \in DOMAIN order |-> Status(order[k], "INCOMPLETE")]
    /\ timer' = [s \in Streams |-> IF s \in streams_in_progress THEN "finished" ELSE timer[s]]
    /\ pc' = "raised" /\ exc' = "Error"
    /\ UNCHANGED <<inputs, partition_generators, partition_generator_running, streams_in_progress,
                   streams_to_partitions_to_done, record_counter, reported, message_repository>>

(* A handler that starts the generator that waited the shortest *)
HandlePartitionGenerationCompletedLastFirst ==
    /\ pc = "loop" /\ queue # <<>> /\ Head(queue).type = "GenerationCompleted"
    /\ queue' = Tail(queue)
    /\ UNCHANGED <<inputs, streams_to_partitions_to_done, record_counter, timer, message_repository>>
    /\ LET running == SeqRemove(partition_generator_running, Head(queue).stream) IN
       IF partition_generators # <<>>
       THEN LET s == partition_generators[Len(partition_generators)] IN
            /\ partition_generators' = SubSeq(partition_generators, 1, Len(partition_generators) - 1)
            /\ streams_in_progress' = streams_in_progress \cup {s}
            /\ partition_generator_running' = Append(running, s)
            /\ trace' = Append(trace, Status(s, "STARTED"))
            /\ EndOfIteration(FALSE, SubmitTask(futures, Task("gen", s, 0)))
       ELSE /\ partition_generator_running' = running
            /\ UNCHANGED <<partition_generators, streams_in_progress, trace>>
            /\ EndOfIteration(FALSE, futures)
    /\ exc' = "none"

(* A handler that starts the next generator without marking its stream in progress *)
HandlePartitionGenerationCompletedNoAdd ==
    /\ pc = "loop" /\ queue # <<>> /\ Head(queue).type = "GenerationCompleted"
    /\ queue' = Tail(queue)
    /\ UNCHANGED <<inputs, streams_to_partitions_to_done, record_counter, timer, message_repository>>
    /\ LET running == SeqRemove(partition_generator_running, Head(queue).stream) IN
       IF partition_generators # <<>>
       THEN LET s == Head(partition_generators) IN
            /\ partition_generators' = Tail(partition_generators)
            /\ streams_in_progress' = streams_in_progress
            /\ partition_generator_running' = Append(running, s)
            /\ trace' = Append(trace, Status(s, "STARTED"))
            /\ EndOfIteration(FALSE, SubmitTask(futures, Task("gen", s, 0)))
       ELSE /\ partition_generator_running' = running
            /\ UNCHANGED <<partition_generators, streams_in_progress, trace>>
            /\ EndOfIteration(FALSE, futures)
    /\ exc' = "none"

(* lines 121-132 and _handle_partition_generation_completed, lines 203-221 *)
HandlePartitionGenerationCompleted ==
    /\ pc = "loop" /\ queue # <<>> /\ Head(queue).type = "GenerationCompleted"
    /\ queue' = Tail(queue)
    /\ UNCHANGED <<inputs, streams_to_partitions_to_done, record_counter, timer, message_repository>>
    /\ LET running == SeqRemove(partition_generator_running, Head(queue).stream) IN
       IF partition_generators # <<>>
       THEN LET s == Head(partition_generators) IN
            /\ partition_generators' = Tail(partition_generators)
            /\ streams_in_progress' = streams_in_progress \cup {s}
            /\ partition_generator_running' = Append(running, s)
            /\ trace' = Append(trace, Status(s, "STARTED"))
            /\ EndOfIteration(FALSE, SubmitTask(futures, Task("gen", s, 0)))
       ELSE /\ partition_generator_running' = running
            /\ UNCHANGED <<partition_generators, streams_in_progress, trace>>
            /\ EndOfIteration(FALSE, futures)
    /\ exc' = "none"

(* A partition handler that yields RUNNING when the reading task is submitted *)
HandlePartitionMarksRunning ==
    /\ pc = "loop" /\ queue # <<>> /\ Head(queue).type = "Partition"
    /\ queue' = Tail(queue)
    /\ LET s == Head(queue).stream
           p == Head(queue).part IN
       /\ streams_to_partitions_to_done' =
             [streams_to_partitions_to_done EXCEPT
                 ![s] = [q \in DOMAIN @ \cup {p} |-> IF q = p THEN FALSE ELSE @[q]]]
       /\ message_repository' = IF should_log_slice_message
                                 THEN Append(message_repository, SliceLog(s, p))
                                 ELSE message_repository
       /\ trace' = IF \E k \in DOMAIN trace : trace[k] = Status(s, "RUNNING")
                   THEN trace
                   ELSE Append(trace, Status(s, "RUNNING"))
       /\ UNCHANGED <<partition_generators, partition_generator_running>>
       /\ EndOfIteration(FALSE, SubmitTask(futures, Task("read", s, p)))
    /\ exc' = "none"
    /\ UNCHANGED <<inputs, streams_in_progress, record_counter, timer>>

(* lines 134-138 and _handle_partition, lines 196-201 *)
HandlePartition ==
    /\ pc = "loop" /\ queue # <<>> /\ Head(queue).type = "Partition"
    /\ queue' = Tail(queue)
    /\ LET s == Head(queue).stream
           p == Head(queue).part IN
       /\ streams_to_partitions_to_done' =
             [streams_to_partitions_to_done EXCEPT
                 ![s] = [q \in DOMAIN @ \cup {p} |-> IF q = p THEN FALSE ELSE @[q]]]
       /\ message_repository' = IF should_log_slice_message
                                 THEN Append(message_repository, SliceLog(s, p))
                                 ELSE message_repository
       /\ UNCHANGED <<partition_generators, partition_generator_running>>
       /\ EndOfIteration(FALSE, SubmitTask(futures, Task("read", s, p)))
    /\ exc' = "none"
    /\ UNCHANGED <<inputs, streams_in_progress, record_counter, timer, trace>>

(* A completion handler that does not look at the running generators *)
HandlePartitionCompletedNoGeneratorCheck ==
    /\ pc = "loop" /\ queue # <<>> /\ Head(queue).type = "PartitionCompleted"
    /\ queue' = Tail(queue)
    /\ LET s == Head(queue).stream
           p == Head(queue).part
           s2p == [streams_to_partitions_to_done EXCEPT
                      ![s] = [q \in DOMAIN @ \cup {p} |-> IF q = p THEN TRUE ELSE @[q]]]
       IN
       /\ streams_to_partitions_to_done' = s2p
       /\ UNCHANGED <<partition_generators, partition_generator_running>>
       /\ IF \A q \in DOMAIN s2p[s] : s2p[s][q]
          THEN IF s \notin streams_in_progress
               THEN /\ pc' = "raised" /\ exc' = "KeyError"
                    /\ trace' = Append(trace, ClosePartition(s, p))
                    /\ UNCHANGED <<futures, streams_in_progress, timer, reported, pool_shutdown>>
               ELSE /\ streams_in_progress' = streams_in_progress \ {s}
                    /\ timer' = [timer EXCEPT ![s] = "finished"]
                    /\ trace' = trace \o <<ClosePartition(s, p), Status(s, "COMPLETE")>>
                    /\ exc' = "none"
                    /\ EndOfIteration(streams_in_progress' = {}, futures)
          ELSE /\ trace' = Append(trace, ClosePartition(s, p))
               /\ exc' = "none"
               /\ UNCHANGED <<streams_in_progress, timer>>
               /\ EndOfIteration(streams_in_progress = {}, futures)
    /\ UNCHANGED <<inputs, record_counter, message_repository>>

(* A completion handler that closes the partition after the status is built *)
HandlePartitionCompletedClosesLate ==
    /\ pc = "loop" /\ queue # <<>> /\ Head(queue).type = "PartitionCompleted"
    /\ queue' = Tail(queue)
    /\ LET s == Head(queue).stream
           p == Head(queue).part
           s2p == [streams_to_partitions_to_done EXCEPT
                      ![s] = [q \in DOMAIN @ \cup {p} |-> IF q = p THEN TRUE ELSE @[q]]]
       IN
       /\ streams_to_partitions_to_done' = s2p
       /\ UNCHANGED <<partition_generators, partition_generator_running>>
       /\ IF (\A q \in DOMAIN s2p[s] : s2p[s][q]) /\ s \notin Range(partition_generator_running)
          THEN IF s \notin streams_in_progress
               THEN /\ pc' = "raised" /\ exc' = "KeyError"
                    /\ trace' = trace
                    /\ UNCHANGED <<futures, streams_in_progress, timer, reported, pool_shutdown>>
               ELSE /\ streams_in_progress' = streams_in_progress \ {s}
                    /\ timer' = [timer EXCEPT ![s] = "finished"]
                    /\ trace' = trace \o <<Status(s, "COMPLETE"), ClosePartition(s, p)>>
                    /\ exc' = "none"
                    /\ EndOfIteration(streams_in_progress' = {}, futures)
          ELSE /\ trace' = Append(trace, ClosePartition(s, p))
               /\ exc' = "none"
               /\ UNCHANGED <<streams_in_progress, timer>>
               /\ EndOfIteration(streams_in_progress = {}, futures)
    /\ UNCHANGED <<inputs, record_counter, message_repository>>

(* lines 139-161 and _handle_partition_completed, lines 223-247 *)
HandlePartitionCompleted ==
    /\ pc = "loop" /\ queue # <<>> /\ Head(queue).type = "PartitionCompleted"
    /\ queue' = Tail(queue)
    /\ LET s == Head(queue).stream
           p == Head(queue).part
           s2p == [streams_to_partitions_to_done EXCEPT
                      ![s] = [q \in DOMAIN @ \cup {p} |-> IF q = p THEN TRUE ELSE @[q]]]
       IN
       /\ streams_to_partitions_to_done' = s2p
       /\ UNCHANGED <<partition_generators, partition_generator_running>>
       /\ IF (\A q \in DOMAIN s2p[s] : s2p[s][q]) /\ s \notin Range(partition_generator_running)
          THEN IF s \notin streams_in_progress
               THEN \* set.remove of an absent element
                    /\ pc' = "raised" /\ exc' = "KeyError"
                    /\ trace' = Append(trace, ClosePartition(s, p))
                    /\ UNCHANGED <<futures, streams_in_progress, timer, reported, pool_shutdown>>
               ELSE /\ streams_in_progress' = streams_in_progress \ {s}
                    /\ timer' = [timer EXCEPT ![s] = "finished"]
                    /\ trace' = trace \o <<ClosePartition(s, p), Status(s, "COMPLETE")>>
                    /\ exc' = "none"
                    /\ EndOfIteration(streams_in_progress' = {}, futures)
          ELSE /\ trace' = Append(trace, ClosePartition(s, p))
               /\ exc' = "none"
               /\ UNCHANGED <<streams_in_progress, timer>>
               /\ EndOfIteration(streams_in_progress = {}, futures)
    /\ UNCHANGED <<inputs, record_counter, message_repository>>

(* A record handler that forgets to count *)
HandleRecordNoCount ==
    /\ pc = "loop" /\ queue # <<>> /\ Head(queue).type = "Record"
    /\ queue' = Tail(queue)
    /\ LET s == Head(queue).stream
           p == Head(queue).part
           i == Head(queue).idx IN
       /\ trace' = trace
                   \o (IF record_counter[s] = 0 /\ i = 1 THEN <<Status(s, "RUNNING")>> ELSE <<>>)
                   \o <<RecordMsg(s, p, i), Observe(s, p, i)>>
                   \o message_repository
       /\ message_repository' = <<>>
       /\ record_counter' = record_counter
    /\ UNCHANGED <<partition_generators, partition_generator_running, streams_to_partitions_to_done>>
    /\ EndOfIteration(FALSE, futures)
    /\ exc' = "none"
    /\ UNCHANGED <<inputs, streams_in_progress, timer>>

(* A record handler that yields RUNNING with every record *)
HandleRecordAlwaysRunning ==
    /\ pc = "loop" /\ queue # <<>> /\ Head(queue).type = "Record"
    /\ queue' = Tail(queue)
    /\ LET s == Head(queue).stream
           p == Head(queue).part
           i == Head(queue).idx IN
       /\ trace' = trace
                   \o <<Status(s, "RUNNING"), RecordMsg(s, p, i), Observe(s, p, i)>>
                   \o message_repository
       /\ message_repository' = <<>>
       /\ record_counter' = [record_counter EXCEPT ![s] = @ + 1]
    /\ UNCHANGED <<partition_generators, partition_generator_running, streams_to_partitions_to_done>>
    /\ EndOfIteration(FALSE, futures)
    /\ exc' = "none"
    /\ UNCHANGED <<inputs, streams_in_progress, timer>>

(* lines 162-182 *)
HandleRecord ==
    /\ pc = "loop" /\ queue # <<>> /\ Head(queue).type = "Record"
    /\ queue' = Tail(queue)
    /\ LET s == Head(queue).stream
           p == Head(queue).part
           i == Head(queue).idx IN
       /\ trace' = trace
                   \o (IF record_counter[s] = 0 THEN <<Status(s, "RUNNING")>> ELSE <<>>)
                   \o <<RecordMsg(s, p, i), Observe(s, p, i)>>
                   \o message_repository
       /\ message_repository' = <<>>
       /\ record_counter' = [record_counter EXCEPT ![s] = @ + 1]
    /\ UNCHANGED <<partition_generators, partition_generator_running, streams_to_partitions_to_done>>
    /\ EndOfIteration(FALSE, futures)
    /\ exc' = "none"
    /\ UNCHANGED <<inputs, streams_in_progress, timer>>

(* line 114: queue.get(block=True, timeout) finds no item within the timeout *)
Timeout ==
    /\ pc = "loop" /\ queue = <<>>
    /\ pc' = "raised" /\ exc' = "Empty"
    /\ UNCHANGED <<inputs, futures, queue, partition_generators, partition_generator_running,
                   streams_in_progress, streams_to_partitions_to_done, record_counter, timer,
                   reported, pool_shutdown, message_repository, trace>>

(* A reading task whose PartitionCompleted sentinel reaches the queue twice *)
DuplicateCompleted(i) ==
    /\ pc = "loop"
    /\ futures[i].kind = "read" /\ futures[i].st = "running"
    /\ futures[i].pos = nrecs[futures[i].stream]
    /\ queue' = queue \o << Item("PartitionCompleted", futures[i].stream, futures[i].part, 0),
                             Item("PartitionCompleted", futures[i].stream, futures[i].part, 0) >>
    /\ futures' = [futures EXCEPT ![i].st = "returning"]
    /\ UNCHANGED <<inputs, driver>>

(* read is called again on the same source after it returned or aborted: lines 50-62
   build the per-run state anew; the pool (line 33) and the message repository
   (line 34) belong to the source *)
ReadAgain ==
    /\ pc \in {"done", "raised"} /\ exc \in {"none", "Error"}
    /\ pc' = "start" /\ exc' = "none"
    /\ futures' = <<>>
    /\ queue' = <<>>
    /\ partition_generators' = <<>>
    /\ partition_generator_running' = <<>>
    /\ streams_in_progress' = {}
    /\ streams_to_partitions_to_done' = <<>>
    /\ record_counter' = <<>>
    /\ timer' = [s \in Streams |-> "none"]
    /\ reported' = FALSE
    /\ trace' = <<>>
    /\ UNCHANGED <<inputs, pool_shutdown, message_repository>>

----
Next ==
    \/ Start
    \/ HandleError
    \/ HandlePartitionGenerationCompleted
    \/ HandlePartition
    \/ HandlePartitionCompleted
    \/ HandleRecord
    \/ Timeout
    \/ \E i \in DOMAIN futures : PoolStart(i)
    \/ \E i \in DOMAIN futures : TaskReturn(i)
    \/ \E i \in DOMAIN futures : GenPartition(i)
    \/ \E i \in DOMAIN futures : GenCompleted(i)
    \/ \E i \in DOMAIN futures : ReadRecord(i)
    \/ \E i \in DOMAIN futures : ReadCompleted(i)
    \/ \E i \in DOMAIN futures : TaskFail(i)

Spec == Init /\ [][Next]_vars

(* Runs in which no task fails and no pop times out *)
NextErrorFree ==
    \/ Start
    \/ HandlePartitionGenerationCompleted
    \/ HandlePartition
    \/ HandlePartitionCompleted
    \/ HandleRecord
    \/ \E i \in DOMAIN futures : PoolStart(i)
    \/ \E i \in DOMAIN futures : TaskReturn(i)
    \/ \E i \in DOMAIN futures : GenPartition(i)
    \/ \E i \in DOMAIN futures : GenCompleted(i)
    \/ \E i \in DOMAIN futures : ReadRecord(i)
    \/ \E i \in DOMAIN futures : ReadCompleted(i)

(* The driver thread and the pool's threads keep being scheduled *)
SpecSerial == InitWith(SerialTotalRecs) /\ [][NextErrorFree]_vars /\ WF_vars(NextErrorFree)

(* Error-free runs in which a sentinel may be duplicated *)
NextDup == NextErrorFree \/ \E i \in DOMAIN futures : DuplicateCompleted(i)
SpecDup == Init /\ [][NextDup]_vars

(* One source, read again and again *)
NextRerun == Next \/ ReadAgain
SpecRerun == Init /\ [][NextRerun]_vars

----
(* What the claims speak about *)

StatusesOf(s) ==
    LET sel == SelectSeq(trace, LAMBDA e : e.ev = "status" /\ e.stream = s)
    IN [k \in DOMAIN sel |-> sel[k].status]
Emitted(s, status) == \E k \in DOMAIN trace : trace[k] = Status(s, status)
RecordsOut(s, p) ==
    LET sel == SelectSeq(trace, LAMBDA e : e.ev = "record" /\ e.stream = s /\ e.part = p)
    IN [k \in DOMAIN sel |-> sel[k].idx]
IsPrefix(a, b) == Len(a) <= Len(b) /\ \A k \in DOMAIN a : a[k] = b[k]

ErrorFree == \A i \in DOMAIN futures : ~futures[i].failed
Succeeded == pc = "done"
Aborted == pc = "raised" /\ exc = "Error"
GenerationProcessed(s) == Emitted(s, "STARTED") /\ s \notin Range(partition_generator_running)
AllPartitionsDone(s) ==
    /\ s \in DOMAIN streams_to_partitions_to_done
    /\ DOMAIN streams_to_partitions_to_done[s] = 1..nparts[s]
    /\ \A p \in 1..nparts[s] : streams_to_partitions_to_done[s][p]

FullLifecycles == {<<"STARTED", "COMPLETE">>, <<"STARTED", "INCOMPLETE">>,
                   <<"STARTED", "RUNNING", "COMPLETE">>, <<"STARTED", "RUNNING", "INCOMPLETE">>}

----
(* C1: when read has ended, by success or by abort, the statuses of every started
   stream are STARTED, then at most one RUNNING, then exactly one of COMPLETE and
   INCOMPLETE; until then they are the beginning of such a sequence. *)
C1_StatusSequence ==
    \A s \in Streams :
        /\ \E full \in FullLifecycles \cup {<<>>} : IsPrefix(StatusesOf(s), full)
        /\ (Succeeded \/ Aborted) /\ Emitted(s, "STARTED") => StatusesOf(s) \in FullLifecycles

(* C2: a started stream whose generator discovers no partition never gets RUNNING,
   and has COMPLETE as soon as its GenerationCompleted item has been processed. *)
C2_EmptyStreamCompletes ==
    \A s \in Streams :
        Emitted(s, "STARTED") /\ nparts[s] = 0 =>
            /\ ~Emitted(s, "RUNNING")
            /\ (GenerationProcessed(s) /\ ~Aborted => Emitted(s, "COMPLETE"))

(* C3: without errors, a started stream with at least one partition has COMPLETE
   once all its discovered partitions are marked done and its generator has
   finished, whichever of the two the driver processed last. *)
C3_CompleteWhenBothHold ==
    \A s \in Streams :
        /\ ErrorFree /\ ~Aborted
        /\ nparts[s] >= 1
        /\ GenerationProcessed(s)
        /\ AllPartitionsDone(s)
        => Emitted(s, "COMPLETE")

(* C4: the step that pops an Error item shuts the pool down cancelling pending
   work, yields INCOMPLETE exactly once for each stream that has STARTED and not
   COMPLETE and for no other stream, keeps what was yielded before, and raises the
   error; once read has raised, nothing more is popped and nothing more is yielded. *)
C4_GlobalAbort ==
    [][ /\ (pc = "loop" /\ queue # <<>> /\ Head(queue).type = "Error" /\ queue' = Tail(queue)) =>
            LET unfinished == {s \in Streams : Emitted(s, "STARTED") /\ ~Emitted(s, "COMPLETE")}
                added == SubSeq(trace', Len(trace) + 1, Len(trace'))
            IN /\ pc' = "raised" /\ exc' = "Error"
               /\ pool_shutdown'
               /\ \A i \in DOMAIN futures' : futures'[i].st # "pending"
               /\ IsPrefix(trace, trace')
               /\ Len(added) = Cardinality(unfinished)
               /\ \A s \in unfinished : \E k \in DOMAIN added : added[k] = Status(s, "INCOMPLETE")
        /\ (pc = "raised" => UNCHANGED <<pc, exc, queue, trace>>)
      ]_vars
C4_Witness ==
    /\ Aborted
    /\ \E s1, s2, s3 \in Streams :
          /\ s2 # s3
          /\ Emitted(s1, "COMPLETE") /\ Emitted(s2, "INCOMPLETE") /\ Emitted(s3, "INCOMPLETE")
          /\ \E k \in DOMAIN trace : trace[k].ev = "record"
    /\ \E i \in DOMAIN futures : futures[i].st = "cancelled"

(* C5: when every task has finished without error, the driver is not left
   waiting on an empty queue. *)
C5_NoStall ==
    ~(/\ pc = "loop"
      /\ queue = <<>>
      /\ futures # <<>>
      /\ \A i \in DOMAIN futures : futures[i].st = "done" /\ ~futures[i].failed)

(* C6: when read ends on the success path no generation task is pending or
   running, every registered partition is marked done and every submitted future
   reports finished. *)
C6_SuccessTermination ==
    Succeeded =>
        /\ partition_generators = <<>>
        /\ partition_generator_running = <<>>
        /\ \A s \in DOMAIN streams_to_partitions_to_done :
              \A p \in DOMAIN streams_to_partitions_to_done[s] : streams_to_partitions_to_done[s][p]
        /\ \A i \in DOMAIN futures : Finished(futures[i])

(* C7: the record messages of a partition are the records its task pushed, in
   the order it pushed them, none twice; when read ends on the success path every
   record of every partition of every stream that is read has been output. *)
C7_RecordsExactlyOnce ==
    /\ \A k \in DOMAIN trace : trace[k].ev = "record" =>
          \E i \in DOMAIN futures :
              /\ futures[i].kind = "read"
              /\ futures[i].stream = trace[k].stream /\ futures[i].part = trace[k].part
    /\ \A i \in DOMAIN futures : futures[i].kind = "read" =>
          LET out == RecordsOut(futures[i].stream, futures[i].part)
          IN /\ out = [k \in 1..Len(out) |-> k]
             /\ Len(out) <= futures[i].pos
    /\ Succeeded =>
          \A s \in Streams : kind[s] = "ok" =>
              \A p \in 1..nparts[s] : RecordsOut(s, p) = [k \in 1..nrecs[s] |-> k]
C7_Witness ==
    /\ Succeeded
    /\ \E s \in Streams : nrecs[s] = 2 /\ RecordsOut(s, 1) = <<1, 2>>

(* C8: at most max_number_of_partition_generator_in_progress streams are in the
   running-generator list, and as many generation tasks have been submitted
   without their GenerationCompleted item having been pushed. *)
C8_DiscoveryCap ==
    /\ Len(partition_generator_running) <= max_number_of_partition_generator_in_progress
    /\ Cardinality({i \in DOMAIN futures : futures[i].kind = "gen" /\ futures[i].st \in {"pending", "running"}})
          <= max_number_of_partition_generator_in_progress
C8_Witness ==
    /\ Cardinality({s \in Streams : Emitted(s, "STARTED")}) = 3
    /\ Len(partition_generator_running) = 1
    /\ pc = "loop"

C10_UnavailableSkipped ==
    \A s \in Streams : kind[s] = "unavailable" =>
        /\ \A i \in DOMAIN futures : futures[i].stream # s
        /\ \A k \in DOMAIN trace : trace[k].stream # s
        /\ (pc \in {"done", "raised"} /\ exc \notin {"Error", "Empty", "KeyError"} => Succeeded)

----
RecordEvents == SelectSeq(trace, LAMBDA e : e.ev = "record")
RecordsOfStream(s) == SelectSeq(trace, LAMBDA e : e.ev = "record" /\ e.stream = s)
Unfinished == {s \in Streams : Emitted(s, "STARTED") /\ ~Emitted(s, "COMPLETE")}
ReadStreams == {s \in Streams : kind[s] = "ok"}

(* C11: with max_workers = 1 the record messages of one partition are contiguous
   among the record messages, and when every stream that is read has a partition
   the run ends with COMPLETE for each of them. *)
C11_SerialReading ==
    /\ [](max_workers = 1 =>
            \A i, j, k \in DOMAIN RecordEvents :
                /\ i < j /\ j < k
                /\ RecordEvents[i].stream = RecordEvents[k].stream
                /\ RecordEvents[i].part = RecordEvents[k].part
                => /\ RecordEvents[j].stream = RecordEvents[i].stream
                   /\ RecordEvents[j].part = RecordEvents[i].part)
    /\ ((/\ max_workers = 1
         /\ ~MissingRaises
         /\ ReadStreams # {}
         /\ \A s \in ReadStreams : nparts[s] >= 1)
        => <>(Succeeded /\ \A s \in ReadStreams : Emitted(s, "COMPLETE")))
C11_Witness ==
    /\ max_workers = 1
    /\ Succeeded
    /\ \E s1, s2 \in Streams :
          /\ s1 # s2
          /\ Len(RecordsOfStream(s1)) = 2 /\ Len(RecordsOfStream(s2)) = 1
          /\ Emitted(s1, "COMPLETE") /\ Emitted(s2, "COMPLETE")

(* C12: the record count of a stream is the number of record messages yielded
   for it, and no record of the stream is yielded after its COMPLETE, so the
   count logged at finalization is the stream's number of record messages. *)
C12_RecordCount ==
    \A s \in DOMAIN record_counter :
        /\ record_counter[s] = Len(RecordsOfStream(s))
        /\ \A c \in DOMAIN trace : trace[c] = Status(s, "COMPLETE") =>
              record_counter[s] = Len(SelectSeq(SubSeq(trace, 1, c),
                                                LAMBDA e : e.ev = "record" /\ e.stream = s))
C12_Witness ==
    \E s \in DOMAIN record_counter : record_counter[s] = 2 /\ Emitted(s, "COMPLETE")

(* C13: the step that pops a PartitionCompleted item of a partition already
   marked done changes nothing of the driver's bookkeeping: no cursor call, no
   COMPLETE, no removal from the in-progress set. *)
C13_DuplicateIgnored ==
    [][ (/\ pc = "loop" /\ queue # <<>> /\ Head(queue).type = "PartitionCompleted"
         /\ queue' = Tail(queue)
         /\ Head(queue).part \in DOMAIN streams_to_partitions_to_done[Head(queue).stream]
         /\ streams_to_partitions_to_done[Head(queue).stream][Head(queue).part])
        => UNCHANGED <<trace, streams_in_progress, streams_to_partitions_to_done, record_counter, timer>>
      ]_vars

(* C14: when the pop times out, the pool is shut down and every stream that has
   STARTED and not COMPLETE has INCOMPLETE before the failure reaches the caller. *)
C14_StallAborts ==
    pc = "raised" /\ exc = "Empty" =>
        /\ pool_shutdown
        /\ \A s \in Unfinished : Emitted(s, "INCOMPLETE")

(* C15: a missing stream has no task and no event; when the policy is to raise,
   read fails with KeyError before any task is submitted and any status is
   yielded; when it is not, read does not fail on it and every available stream
   of the catalog is read. *)
C15_MissingStream ==
    /\ \A s \in Streams : kind[s] = "missing" =>
          /\ \A i \in DOMAIN futures : futures[i].stream # s
          /\ \A k \in DOMAIN trace : trace[k].stream # s
    /\ (\E s \in Streams : kind[s] = "missing") /\ pc # "start" =>
          IF raise_exception_on_missing_stream
          THEN pc = "raised" /\ exc = "KeyError" /\ futures = <<>> /\ trace = <<>>
          ELSE exc # "KeyError" /\ DOMAIN record_counter = ReadStreams
C15_Witness ==
    /\ raise_exception_on_missing_stream
    /\ kind[1] = "ok" /\ kind[2] = "missing"
    /\ pc = "raised" /\ exc = "KeyError"

(* C16: a call of read starts from fresh state, the pool's and the message
   repository's included, and its submissions are accepted. *)
C16_RunsIsolated ==
    /\ (pc = "start" => ~pool_shutdown /\ message_repository = <<>>)
    /\ exc # "RuntimeError"

(* C17: when read has ended, by success or by abort, the timing summary was
   logged and no timer that was started is left unfinished. *)
C17_TimingSummary ==
    Succeeded \/ Aborted =>
        /\ reported
        /\ \A s \in Streams : timer[s] # "started"

(* C18: no message emitted for a stream is still in the repository once the
   stream has COMPLETE, and none is left when read has returned. *)
C18_RepositoryDrained ==
    /\ \A s \in Streams : Emitted(s, "COMPLETE") =>
          \A k \in DOMAIN message_repository : message_repository[k].stream # s
    /\ (Succeeded => message_repository = <<>>)

(* C19: the statuses of a stream, in the order they were yielded, are STARTED,
   then RUNNING at most once, then at most one terminal status, and nothing else. *)
C19_MonotonicStatus ==
    \A s \in Streams :
        StatusesOf(s) \in {<<>>, <<"STARTED">>, <<"STARTED", "RUNNING">>,
                           <<"STARTED", "COMPLETE">>, <<"STARTED", "INCOMPLETE">>,
                           <<"STARTED", "RUNNING", "COMPLETE">>,
                           <<"STARTED", "RUNNING", "INCOMPLETE">>}
C19_Witness ==
    \E s1, s2 \in Streams :
        /\ StatusesOf(s1) = <<"STARTED", "RUNNING", "COMPLETE">>
        /\ StatusesOf(s2) = <<"STARTED", "RUNNING", "INCOMPLETE">>

(* C20: a stream that has COMPLETE is not in the running-generator list and
   every partition registered under it is marked done. *)
C20_CompleteOnlyWhenDone ==
    \A s \in Streams : Emitted(s, "COMPLETE") =>
        /\ s \notin Range(partition_generator_running)
        /\ \A p \in DOMAIN streams_to_partitions_to_done[s] : streams_to_partitions_to_done[s][p]
C20_Witness ==
    \E s \in Streams :
        /\ Emitted(s, "COMPLETE")
        /\ nparts[s] = 2
        /\ partition_generator_running # <<>>
        /\ pc = "loop"

----
RecordIdx(s) == {k \in DOMAIN trace : trace[k].ev = "record" /\ trace[k].stream = s}
RunningIdx(s) == {k \in DOMAIN trace : trace[k] = Status(s, "RUNNING")}

(* C21: RUNNING of a stream is in the output if and only if a record message of
   the stream is, it comes right before the stream's first record message, and
   no record message of the stream comes after the stream's COMPLETE. *)
C21_RunningAtFirstRecord ==
    \A s \in Streams :
        /\ (RunningIdx(s) # {} <=> RecordIdx(s) # {})
        /\ \A r \in RunningIdx(s) : (r + 1) \in RecordIdx(s) /\ \A k \in RecordIdx(s) : k > r
        /\ \A c \in DOMAIN trace : trace[c] = Status(s, "COMPLETE") => \A k \in RecordIdx(s) : k < c
C21_Witness ==
    \E s1, s2 \in Streams :
        /\ Cardinality(RecordIdx(s1)) = 2 /\ Emitted(s1, "RUNNING") /\ Emitted(s1, "COMPLETE")
        /\ nparts[s2] = 1 /\ Emitted(s2, "COMPLETE") /\ ~Emitted(s2, "RUNNING")

----
StartedSeq ==
    LET sel == SelectSeq(trace, LAMBDA e : e.ev = "status" /\ e.status = "STARTED")
    IN [k \in DOMAIN sel |-> sel[k].stream]

(* C22: without errors every stream that is read is eventually STARTED; the
   streams are STARTED in the order of the catalog; a step yields at most one
   STARTED and submits that stream's generation task with it, and every STARTED
   but the first is yielded by the step that pops a GenerationCompleted item. *)
C22_StartedInOrder ==
    /\ [](IsPrefix(StartedSeq, stream_instances_to_read_from))
    /\ [][ StartedSeq' # StartedSeq =>
              /\ Len(StartedSeq') = Len(StartedSeq) + 1
              /\ futures' = Append(futures, Task("gen", StartedSeq'[Len(StartedSeq')], 0))
              /\ (StartedSeq # <<>> =>
                     /\ pc = "loop" /\ queue # <<>>
                     /\ Head(queue).type = "GenerationCompleted"
                     /\ queue' = Tail(queue))
       ]_vars
    /\ (~MissingRaises => <>(\A s \in ReadStreams : Emitted(s, "STARTED")))
C22_Witness ==
    /\ StartedSeq = <<1, 2, 3>>
    /\ Succeeded
    /\ \E i \in DOMAIN futures : futures[i].kind = "read"

----
CursorCalls == SelectSeq(trace, LAMBDA e : e.ev \in {"observe", "close_partition"})
CloseIdx(s, p) == {k \in DOMAIN trace : trace[k] = ClosePartition(s, p)}

ObserveFollowsRecord ==
    \A k \in DOMAIN trace :
        /\ trace[k].ev = "record" =>
              /\ k + 1 \in DOMAIN trace
              /\ trace[k + 1] = Observe(trace[k].stream, trace[k].part, trace[k].idx)
        /\ trace[k].ev = "observe" =>
              /\ k - 1 \in DOMAIN trace
              /\ trace[k - 1] = RecordMsg(trace[k].stream, trace[k].part, trace[k].idx)
ClosePartitionOnce ==
    \A s \in DOMAIN streams_to_partitions_to_done :
        \A p \in 1..MaxTotalParts :
            /\ Cardinality(CloseIdx(s, p)) =
                  IF p \in DOMAIN streams_to_partitions_to_done[s] /\ streams_to_partitions_to_done[s][p]
                  THEN 1 ELSE 0
            /\ \A c \in CloseIdx(s, p) :
                  /\ \A o \in DOMAIN trace :
                        trace[o].ev = "observe" /\ trace[o].stream = s /\ trace[o].part = p => o < c
                  /\ \A e \in DOMAIN trace : trace[e] = Status(s, "COMPLETE") => c < e

(* C23: every record message is followed at once by the observe call for that
   record and there is no other observe call; close_partition was called once for
   every partition marked done and for no other, after the observe calls for
   the partition's records and before the stream's COMPLETE; a step that calls
   the cursor is a step of the driver popping an item, never a step of a task. *)
C23_CursorCalls ==
    /\ [](ObserveFollowsRecord /\ ClosePartitionOnce)
    /\ [][ CursorCalls' # CursorCalls =>
              /\ pc = "loop" /\ queue # <<>> /\ queue' = Tail(queue)
              /\ Head(queue).type \in {"Record", "PartitionCompleted"}
              /\ \A i \in DOMAIN futures : futures'[i].pos = futures[i].pos
       ]_vars
C23_Witness ==
    \E s \in Streams :
        /\ nparts[s] = 2 /\ nrecs[s] = 1
        /\ \A p \in 1..2 : CloseIdx(s, p) # {} /\ Observe(s, p, 1) \in Range(trace)
        /\ Emitted(s, "COMPLETE")

----
(* C24: when no stream is left to read, all of them being skipped as missing or
   unavailable, read returns without a task submitted and without anything
   yielded. *)
C24_NothingToRead ==
    stream_instances_to_read_from = <<>> /\ ~MissingRaises /\ pc # "start" =>
        Succeeded /\ futures = <<>> /\ trace = <<>>

(* C25: while the driver is in its main loop, the in-progress set is the set of
   streams that have STARTED and not COMPLETE, the streams of the
   running-generator list are in it, and a stream of the pending-generator list
   is in neither. *)
C25_InProgressSet ==
    pc = "loop" =>
        /\ streams_in_progress = Unfinished
        /\ Range(partition_generator_running) \subseteq streams_in_progress
        /\ Range(partition_generators) \cap (streams_in_progress \cup Range(partition_generator_running)) = {}
C25_Witness ==
    /\ pc = "loop"
    /\ Emitted(1, "COMPLETE")
    /\ streams_in_progress = {2}
    /\ partition_generator_running = <<2>>
    /\ partition_generators = <<3>>

====
